---- MODULE Spec2Model ----
(***************************************************************************)
(* A model of stratum_proxy.py: the handler thread of every client         *)
(* connection (handle_client and the handle_* functions it dispatches to), *)
(* the template thread (update_template) and the module globals they       *)
(* share without any lock: clients, difficulty, job_id, current_block and  *)
(* extranonce1.  A thread's position is a call stack of labels; a step is  *)
(* one access to a shared global or one socket operation, so that the      *)
(* interleavings of the unsynchronised threads are those of the program.   *)
(***************************************************************************)
EXTENDS Integers, Sequences, FiniteSets, TLC

\* ----------------------------------------------------------------- bounds
\* Client connections accepted by main().
NumClients == 2
\* Requests one client sends on its connection.
MaxMsgs == 2
\* Requests one client sends while templates are being refreshed.
RefreshMsgs == 1
\* Calls of bitcoin_rpc('getblocktemplate') over the whole run.
MaxFetch == 2
\* Largest header hash value a submitted share may have.
MaxHash == 2
\* The target of difficulty 1, on the scale of these hash values.
DiffOneTarget == 1

\* ------------------------------------------------------------ value sets
None == "<None>"
Clients == 1..NumClients
FirstClient == 1
TemplateThread == 0
Threads == Clients \cup {TemplateThread}

\* params[0] of mining.authorize: any string, the empty one included.
Usernames == {"alice", "bob", ""}
\* random.choice over 8 hex digits, two of its outcomes.
ExtranonceVals == {"e1", "e2"}
\* The numeric values a client puts in mining.suggest_difficulty.
SuggestVals == {0, 4}
\* The job ids a client may quote in mining.submit (0 was never issued).
JobRefs == 0..MaxFetch
Hashes == 0..MaxHash

NoneBlock == [previousblockhash |-> None, height |-> 0, transactions |-> None]
\* What bitcoin_rpc('getblocktemplate') can return: T1 -> T2 changes only the
\* transaction set, T2 -> T3 changes the previous block hash.
T1 == [previousblockhash |-> "h1", height |-> 1, transactions |-> "txA"]
T2 == [previousblockhash |-> "h1", height |-> 1, transactions |-> "txB"]
T3 == [previousblockhash |-> "h2", height |-> 2, transactions |-> "txB"]
Templates == {T1, T2, T3}
\* The dummy data get_block_template() substitutes when the RPC fails.
DummyTemplate == [previousblockhash |-> "dummy", height |-> 800000, transactions |-> "none"]

NoMsg == [id |-> 0, method |-> None, nparams |-> 0, user |-> None,
          job |-> 0, hash |-> 0, value |-> 0, numeric |-> TRUE]
Msg(m, n) == [NoMsg EXCEPT !.method = m, !.nparams = n]
\* The lines a client may send (the id is filled in when the line is read).
Requests ==
    {Msg("mining.subscribe", 0), Msg("mining.configure", 1), Msg("mining.unknown", 0)}
    \cup {[Msg("mining.authorize", n) EXCEPT !.user = u] : n \in {1, 2}, u \in Usernames}
    \cup {[Msg("mining.submit", 5) EXCEPT !.job = j, !.hash = h] : j \in JobRefs, h \in Hashes}
    \cup {Msg("mining.submit", 4)}
    \cup {[Msg("mining.suggest_difficulty", 1) EXCEPT !.value = v] : v \in SuggestVals}
    \cup {[Msg("mining.suggest_difficulty", 1) EXCEPT !.numeric = FALSE],
          Msg("mining.suggest_difficulty", 0)}

\* A message on the wire: a response ('id', 'result', 'error'), or a
\* notification ('id': None, 'method', 'params').
NoWire == [to |-> 0, kind |-> None, id |-> 0, result |-> None, error |-> None,
           extranonce1 |-> None, difficulty |-> 0,
           job_id |-> 0, prevhash |-> None, clean_jobs |-> FALSE]
NoBroadcast == [start |-> {}, tried |-> {}, failed |-> {}]

VARIABLES
    \* the module globals
    clients,        \* the list `clients`, in order
    difficulty,
    job_id,
    current_block,
    extranonce1,
    \* the client dicts and their sockets
    username,       \* client['username']
    sockClosed,     \* client['socket'].close() has been called
    peerGone,       \* the connection is broken: sendall raises
    \* the threads
    pc,             \* call stack of labels, innermost first
    cur,            \* handle_client: the request being dispatched
    nmsgs,          \* lines read from the client so far
    template,       \* get_block_template: the local `template`
    prev,           \* the value of current_block that `template` replaced
    jtmp,           \* job_id += 1: the value loaded
    idx,            \* for client in clients: the iterator's index
    rc_client,      \* remove_client: its argument
    bc,             \* the broadcast under way: who was there, who was tried
    \* what each client has been sent
    wire,           \* the message the last step put on a socket, if any
    given_extranonce, \* the extranonce1 of the last subscribe response built for the client
    authorize_ok,   \* handle_authorize has answered the client with result True
    miner_diff,     \* <<d>>: the difficulty of the last mining.set_difficulty
    \* the run so far
    nfetch,         \* getblocktemplate calls made
    issued          \* the job ids assigned, in order

globals == <<clients, difficulty, job_id, current_block, extranonce1>>
sessions == <<username, sockClosed, peerGone>>
gbtLocals == <<template, prev, jtmp, idx, bc>>
miner == <<given_extranonce, authorize_ok, miner_diff>>
vars == <<clients, difficulty, job_id, current_block, extranonce1,
          username, sockClosed, peerGone,
          pc, cur, nmsgs, template, prev, jtmp, idx, rc_client, bc,
          wire, given_extranonce, authorize_ok, miner_diff, nfetch, issued>>

\* ---------------------------------------------------------------- helpers
Top(t) == Head(pc[t])
InClients(c) == \E i \in 1..Len(clients) : clients[i] = c
Remove(s, c) == SelectSeq(s, LAMBDA x : x # c)

\* Python truth of client.get('username'): None and '' are false.
Truthy(u) == u \notin {None, ""}

\* socket.sendall succeeds.
Deliverable(c) == ~sockClosed[c] /\ ~peerGone[c]

\* send_to_client(client, data) called by thread t, which then goes on at
\* `cont`: the except branch calls remove_client(client), whose first line is
\* the test `client in clients`.
SendCtl(t, c, cont) ==
    IF Deliverable(c) \/ ~InClients(c)
    THEN /\ pc' = [pc EXCEPT ![t] = cont]
         /\ rc_client' = rc_client
    ELSE /\ pc' = [pc EXCEPT ![t] = <<"rc_remove">> \o cont]
         /\ rc_client' = [rc_client EXCEPT ![t] = c]

\* What sendall(message) puts on client c's socket: nothing when it raises.
Sent(c, msg) ==
    wire' = IF Deliverable(c) THEN [msg EXCEPT !.to = c] ELSE NoWire

Response(id, result) == [NoWire EXCEPT !.kind = "response", !.id = id, !.result = result]
TrueResult(id) == Response(id, "True")

\* The mining.notify that send_job builds from the globals.
JobNotification == [NoWire EXCEPT !.kind = "mining.notify",
                                  !.job_id = job_id,
                                  !.prevhash = current_block.previousblockhash,
                                  !.clean_jobs = FALSE]

\* send_job(client) called by thread t, which then goes on at `cont`: nothing
\* is sent without a template.
SendJob(t, c, cont) ==
    IF current_block = NoneBlock
    THEN /\ wire' = NoWire
         /\ pc' = [pc EXCEPT ![t] = cont]
         /\ rc_client' = rc_client
    ELSE /\ Sent(c, JobNotification)
         /\ SendCtl(t, c, cont)

\* ------------------------------------------------------------------- Init
Init ==
    /\ clients = <<>>
    /\ difficulty = 1
    /\ job_id = 0
    /\ current_block = NoneBlock
    /\ extranonce1 = None
    /\ username = [c \in Clients |-> None]
    /\ sockClosed = [c \in Clients |-> FALSE]
    /\ peerGone = [c \in Clients |-> FALSE]
    /\ pc = [t \in Threads |-> IF t = TemplateThread THEN <<"gbt_rpc", "update_template">>
                               ELSE <<"accept">>]
    /\ cur = [c \in Clients |-> NoMsg]
    /\ nmsgs = [c \in Clients |-> 0]
    /\ template = [t \in Threads |-> NoneBlock]
    /\ prev = [t \in Threads |-> NoneBlock]
    /\ jtmp = [t \in Threads |-> 0]
    /\ idx = [t \in Threads |-> 0]
    /\ rc_client = [t \in Threads |-> 0]
    /\ bc = [t \in Threads |-> NoBroadcast]
    /\ wire = NoWire
    /\ given_extranonce = [c \in Clients |-> None]
    /\ authorize_ok = [c \in Clients |-> FALSE]
    /\ miner_diff = [c \in Clients |-> <<>>]
    /\ nfetch = 0
    /\ issued = <<>>

\* The process once the template thread has fetched its first template, T1,
\* with no client connected yet, and sleeps.
InitCached ==
    /\ clients = <<>>
    /\ difficulty = 1
    /\ job_id = 1
    /\ current_block = T1
    /\ extranonce1 = None
    /\ username = [c \in Clients |-> None]
    /\ sockClosed = [c \in Clients |-> FALSE]
    /\ peerGone = [c \in Clients |-> FALSE]
    /\ pc = [t \in Threads |-> IF t = TemplateThread THEN <<"gbt_rpc", "update_template">>
                               ELSE <<"accept">>]
    /\ cur = [c \in Clients |-> NoMsg]
    /\ nmsgs = [c \in Clients |-> 0]
    /\ template = [t \in Threads |-> NoneBlock]
    /\ prev = [t \in Threads |-> NoneBlock]
    /\ jtmp = [t \in Threads |-> 0]
    /\ idx = [t \in Threads |-> 0]
    /\ rc_client = [t \in Threads |-> 0]
    /\ bc = [t \in Threads |-> NoBroadcast]
    /\ wire = NoWire
    /\ given_extranonce = [c \in Clients |-> None]
    /\ authorize_ok = [c \in Clients |-> FALSE]
    /\ miner_diff = [c \in Clients |-> <<>>]
    /\ nfetch = 1
    /\ issued = <<1>>

\* ------------------------------------------------------- the handler thread
\* main(): accept a connection and start handle_client; it registers the client.
Connect(c) ==
    /\ Top(c) = "accept"
    /\ clients' = Append(clients, c)
    /\ pc' = [pc EXCEPT ![c] = <<"recv">>]
    /\ wire' = NoWire
    /\ UNCHANGED <<difficulty, job_id, current_block, extranonce1, sessions, cur,
                   nmsgs, gbtLocals, rc_client, miner, nfetch, issued>>

\* The connection breaks while the handler waits in recv (what it has read
\* already stays in its buffer): sends fail from now on.
PeerDrop(c) ==
    /\ Top(c) = "recv"
    /\ ~peerGone[c]
    /\ ~sockClosed[c]
    /\ peerGone' = [peerGone EXCEPT ![c] = TRUE]
    /\ wire' = NoWire
    /\ UNCHANGED <<globals, username, sockClosed, pc, cur, nmsgs, gbtLocals,
                   rc_client, miner, nfetch, issued>>

\* A line is read and parsed as JSON: request m, the next one of this client.
Reads(c, m) ==
    /\ Top(c) = "recv"
    /\ nmsgs' = [nmsgs EXCEPT ![c] = @ + 1]

\* msg_id of the request being read.
MsgId(c) == nmsgs[c] + 1

\* json.loads raises JSONDecodeError: the line is logged and dropped.
RecvInvalidJson(c) ==
    /\ Reads(c, NoMsg)
    /\ wire' = NoWire
    /\ UNCHANGED <<globals, sessions, pc, cur, gbtLocals, rc_client, miner,
                   nfetch, issued>>

\* handle_client with its last line left out: the thread ends at once.
RecvClosedNoRemove(c) ==
    /\ Top(c) = "recv"
    /\ pc' = [pc EXCEPT ![c] = <<"exit">>]
    /\ wire' = NoWire
    /\ UNCHANGED <<globals, sessions, cur, nmsgs, gbtLocals, rc_client, miner,
                   nfetch, issued>>

\* recv returns b'' or raises: the loop is left for the last remove_client,
\* which starts with the test `client in clients`.
RecvClosed(c) ==
    /\ Top(c) = "recv"
    /\ IF InClients(c)
       THEN /\ pc' = [pc EXCEPT ![c] = <<"rc_remove", "exit">>]
            /\ rc_client' = [rc_client EXCEPT ![c] = c]
       ELSE /\ pc' = [pc EXCEPT ![c] = <<"exit">>]
            /\ rc_client' = rc_client
    /\ wire' = NoWire
    /\ UNCHANGED <<globals, sessions, cur, nmsgs, gbtLocals, miner, nfetch, issued>>

\* handle_subscribe: the test `if not extranonce1`.
Subscribe(c, m) ==
    /\ Reads(c, m)
    /\ m.method = "mining.subscribe"
    /\ cur' = [cur EXCEPT ![c] = [NoMsg EXCEPT !.id = MsgId(c)]]
    /\ pc' = [pc EXCEPT ![c] = IF extranonce1 = None THEN <<"sub_gen">>
                               ELSE <<"sub_send">>]
    /\ wire' = NoWire
    /\ UNCHANGED <<globals, sessions, gbtLocals, rc_client, miner, nfetch, issued>>

\* handle_subscribe: extranonce1 = ''.join(random.choice(...)).
SubscribeGenerate(c) ==
    /\ Top(c) = "sub_gen"
    /\ \E e \in ExtranonceVals : extranonce1' = e
    /\ pc' = [pc EXCEPT ![c] = <<"sub_send">>]
    /\ wire' = NoWire
    /\ UNCHANGED <<clients, difficulty, job_id, current_block, sessions, cur, nmsgs,
                   gbtLocals, rc_client, miner, nfetch, issued>>

\* The extranonce1 handle_subscribe puts in the response to client c.
SubscribeExtranonce(c) == extranonce1

\* handle_subscribe: the response is built from the global and sent.
SubscribeSend(c) ==
    /\ Top(c) = "sub_send"
    /\ Sent(c, [Response(cur[c].id, "subscribed") EXCEPT
                       !.extranonce1 = SubscribeExtranonce(c)])
    /\ given_extranonce' = [given_extranonce EXCEPT ![c] = SubscribeExtranonce(c)]
    /\ SendCtl(c, c, <<"recv">>)
    /\ cur' = [cur EXCEPT ![c] = NoMsg]
    /\ UNCHANGED <<globals, sessions, nmsgs, gbtLocals, authorize_ok, miner_diff,
                   nfetch, issued>>

\* mining.authorize with fewer than two params: nothing is called, nothing is sent.
AuthorizeShort(c, m) ==
    /\ Reads(c, m)
    /\ m.method = "mining.authorize"
    /\ m.nparams < 2
    /\ wire' = NoWire
    /\ UNCHANGED <<globals, sessions, pc, cur, gbtLocals, rc_client, miner,
                   nfetch, issued>>

\* handle_authorize: the response, result True whatever the credentials.
Authorize(c, m) ==
    /\ Reads(c, m)
    /\ m.method = "mining.authorize"
    /\ m.nparams >= 2
    /\ Sent(c, TrueResult(MsgId(c)))
    /\ SendCtl(c, c, <<"auth_set">>)
    /\ cur' = [cur EXCEPT ![c] = [NoMsg EXCEPT !.user = m.user]]
    /\ authorize_ok' = [authorize_ok EXCEPT ![c] = TRUE]
    /\ UNCHANGED <<globals, sessions, gbtLocals, given_extranonce, miner_diff,
                   nfetch, issued>>

\* handle_authorize: client['username'] = username.
AuthorizeSetUsername(c) ==
    /\ Top(c) = "auth_set"
    /\ username' = [username EXCEPT ![c] = cur[c].user]
    /\ pc' = [pc EXCEPT ![c] = <<"auth_diff">>]
    /\ cur' = [cur EXCEPT ![c] = NoMsg]
    /\ wire' = NoWire
    /\ UNCHANGED <<globals, sockClosed, peerGone, nmsgs, gbtLocals, rc_client, miner,
                   nfetch, issued>>

\* handle_authorize: mining.set_difficulty with the global difficulty.
AuthorizeSendDifficulty(c) ==
    /\ Top(c) = "auth_diff"
    /\ Sent(c, [NoWire EXCEPT !.kind = "mining.set_difficulty",
                              !.difficulty = difficulty])
    /\ miner_diff' = IF Deliverable(c) THEN [miner_diff EXCEPT ![c] = <<difficulty>>]
                     ELSE miner_diff
    /\ SendCtl(c, c, <<"auth_tmpl">>)
    /\ UNCHANGED <<globals, sessions, cur, nmsgs, gbtLocals, given_extranonce,
                   authorize_ok, nfetch, issued>>

\* handle_authorize: `if not current_block: get_block_template()`.
AuthorizeCheckTemplate(c) ==
    /\ Top(c) = "auth_tmpl"
    /\ pc' = [pc EXCEPT ![c] = IF current_block = NoneBlock
                               THEN <<"gbt_rpc", "auth_job">>
                               ELSE <<"auth_job">>]
    /\ wire' = NoWire
    /\ UNCHANGED <<globals, sessions, cur, nmsgs, gbtLocals, rc_client, miner,
                   nfetch, issued>>

\* handle_authorize: `if current_block: send_job(client)`.
AuthorizeSendJob(c) ==
    /\ Top(c) = "auth_job"
    /\ SendJob(c, c, <<"recv">>)
    /\ UNCHANGED <<globals, sessions, cur, nmsgs, gbtLocals, miner, nfetch, issued>>

\* mining.submit with fewer than five params: nothing is called, nothing is sent.
SubmitShort(c, m) ==
    /\ Reads(c, m)
    /\ m.method = "mining.submit"
    /\ m.nparams < 5
    /\ wire' = NoWire
    /\ UNCHANGED <<globals, sessions, pc, cur, gbtLocals, rc_client, miner,
                   nfetch, issued>>

\* The response handle_submit gives to share m of client c.
SubmitResult(c, m) == TrueResult(MsgId(c))

\* handle_submit: the response, then random.random() < 0.1 decides whether
\* get_block_template() is called.
Submit(c, m) ==
    /\ Reads(c, m)
    /\ m.method = "mining.submit"
    /\ m.nparams >= 5
    /\ Sent(c, SubmitResult(c, m))
    /\ \E refresh \in BOOLEAN :
          SendCtl(c, c, IF refresh THEN <<"gbt_rpc", "recv">> ELSE <<"recv">>)
    /\ UNCHANGED <<globals, sessions, cur, gbtLocals, miner, nfetch, issued>>

\* handle_configure: no extension is granted.
Configure(c, m) ==
    /\ Reads(c, m)
    /\ m.method = "mining.configure"
    /\ Sent(c, Response(MsgId(c), "configured"))
    /\ SendCtl(c, c, <<"recv">>)
    /\ UNCHANGED <<globals, sessions, cur, gbtLocals, miner, nfetch, issued>>

\* The value handle_suggest_difficulty stores for a suggestion.
SuggestedDifficulty(v) == v

\* handle_suggest_difficulty: float(params[0]) of a non-number raises, and
\* handle_client's `except Exception` drops the request without a response.
SuggestDifficultyInvalid(c, m) ==
    /\ Reads(c, m)
    /\ m.method = "mining.suggest_difficulty"
    /\ m.nparams > 0 /\ ~m.numeric
    /\ wire' = NoWire
    /\ UNCHANGED <<globals, sessions, pc, cur, gbtLocals, rc_client, miner,
                   nfetch, issued>>

\* handle_suggest_difficulty: the global difficulty takes the suggestion.
SuggestDifficulty(c, m) ==
    /\ Reads(c, m)
    /\ m.method = "mining.suggest_difficulty"
    /\ m.nparams = 0 \/ m.numeric
    /\ difficulty' = IF m.nparams > 0 THEN SuggestedDifficulty(m.value)
                     ELSE difficulty
    /\ Sent(c, TrueResult(MsgId(c)))
    /\ SendCtl(c, c, <<"recv">>)
    /\ UNCHANGED <<clients, job_id, current_block, extranonce1, sessions, cur,
                   gbtLocals, miner, nfetch, issued>>

\* The response handle_client gives to a method it does not know.
UnknownResult(c, m) == TrueResult(MsgId(c))

UnknownMethod(c, m) ==
    /\ Reads(c, m)
    /\ m.method = "mining.unknown"
    /\ Sent(c, UnknownResult(c, m))
    /\ SendCtl(c, c, <<"recv">>)
    /\ UNCHANGED <<globals, sessions, cur, gbtLocals, miner, nfetch, issued>>

\* ------------------------------------------------------ get_block_template
\* `if not template`: a failed RPC (None, or {} for error -8) is replaced by
\* the dummy data.
FetchedTemplate(r) == IF r = NoneBlock THEN DummyTemplate ELSE r

\* template = bitcoin_rpc('getblocktemplate', ...); current_block = template;
\* current_transactions = template.get('transactions', []).
FetchTemplate(t) ==
    /\ Top(t) = "gbt_rpc"
    /\ \E r \in Templates \cup {NoneBlock} :
          /\ template' = [template EXCEPT ![t] = FetchedTemplate(r)]
          /\ current_block' = FetchedTemplate(r)
    /\ prev' = [prev EXCEPT ![t] = current_block]
    /\ nfetch' = nfetch + 1
    /\ pc' = [pc EXCEPT ![t] = <<"gbt_load">> \o Tail(pc[t])]
    /\ wire' = NoWire
    /\ UNCHANGED <<clients, difficulty, job_id, extranonce1, sessions, cur, nmsgs,
                   jtmp, idx, bc, rc_client, miner, issued>>

\* job_id += 1, the load.
LoadJobId(t) ==
    /\ Top(t) = "gbt_load"
    /\ jtmp' = [jtmp EXCEPT ![t] = job_id]
    /\ pc' = [pc EXCEPT ![t] = <<"gbt_store">> \o Tail(pc[t])]
    /\ wire' = NoWire
    /\ UNCHANGED <<globals, sessions, cur, nmsgs, template, prev, idx, bc, rc_client,
                   miner, nfetch, issued>>

\* job_id += 1, the store; the loop over clients starts.
StoreJobId(t) ==
    /\ Top(t) = "gbt_store"
    /\ job_id' = jtmp[t] + 1
    /\ issued' = Append(issued, jtmp[t] + 1)
    /\ idx' = [idx EXCEPT ![t] = 0]
    /\ bc' = [bc EXCEPT ![t] = [start |-> {c \in Clients : InClients(c) /\ Truthy(username[c])},
                                 tried |-> {}, failed |-> {}]]
    /\ pc' = [pc EXCEPT ![t] = <<"gbt_loop">> \o Tail(pc[t])]
    /\ wire' = NoWire
    /\ UNCHANGED <<clients, difficulty, current_block, extranonce1, sessions, cur,
                   nmsgs, template, prev, jtmp, rc_client, miner, nfetch>>

\* The loop with its test left out: every registered client is sent the job.
BroadcastToEveryone(c) == TRUE

\* `if client.get('username')`: only authorized clients are sent the job.
BroadcastTo(c) == Truthy(username[c])

\* for client in clients: the next element, an authorized client; send_job.
BroadcastSend(t) ==
    /\ Top(t) = "gbt_loop"
    /\ idx[t] < Len(clients)
    /\ LET c == clients[idx[t] + 1] IN
          /\ BroadcastTo(c)
          /\ SendJob(t, c, pc[t])
          /\ bc' = [bc EXCEPT ![t].tried = @ \cup {c},
                              ![t].failed = IF Deliverable(c) THEN @ ELSE @ \cup {c}]
    /\ idx' = [idx EXCEPT ![t] = @ + 1]
    /\ UNCHANGED <<globals, sessions, cur, nmsgs, template, prev, jtmp, miner,
                   nfetch, issued>>

\* for client in clients: the next element, a client with no username.
BroadcastSkip(t) ==
    /\ Top(t) = "gbt_loop"
    /\ idx[t] < Len(clients)
    /\ ~BroadcastTo(clients[idx[t] + 1])
    /\ idx' = [idx EXCEPT ![t] = @ + 1]
    /\ wire' = NoWire
    /\ UNCHANGED <<globals, sessions, pc, cur, nmsgs, template, prev, jtmp, bc,
                   rc_client, miner, nfetch, issued>>

\* for client in clients: the iterator's index has reached the list's length.
BroadcastEnd(t) ==
    /\ Top(t) = "gbt_loop"
    /\ idx[t] >= Len(clients)
    /\ pc' = [pc EXCEPT ![t] = <<"gbt_ret">> \o Tail(pc[t])]
    /\ wire' = NoWire
    /\ UNCHANGED <<globals, sessions, cur, nmsgs, gbtLocals, rc_client, miner,
                   nfetch, issued>>

\* return template; update_template sleeps and calls get_block_template again.
ReturnTemplate(t) ==
    /\ Top(t) = "gbt_ret"
    /\ pc' = [pc EXCEPT ![t] = IF t = TemplateThread THEN <<"gbt_rpc", "update_template">>
                               ELSE Tail(pc[t])]
    /\ template' = [template EXCEPT ![t] = NoneBlock]
    /\ prev' = [prev EXCEPT ![t] = NoneBlock]
    /\ jtmp' = [jtmp EXCEPT ![t] = 0]
    /\ idx' = [idx EXCEPT ![t] = 0]
    /\ bc' = [bc EXCEPT ![t] = NoBroadcast]
    /\ wire' = NoWire
    /\ UNCHANGED <<globals, sessions, cur, nmsgs, rc_client, miner, nfetch, issued>>

\* ------------------------------------------------------------ remove_client
\* remove_client after its test `client in clients` passed: the socket is
\* closed (what the peer did to it no longer matters) and
\* clients.remove(client) is called.  If another thread removed the
\* client since the test, list.remove raises ValueError: handle_client's
\* `except Exception` catches it while a request is being handled; in the
\* template thread, and in handle_client's last line, nothing does.
RemoveClient(t) ==
    /\ Top(t) = "rc_remove"
    /\ LET v == rc_client[t] IN
          /\ sockClosed' = [sockClosed EXCEPT ![v] = TRUE]
          /\ peerGone' = [peerGone EXCEPT ![v] = FALSE]
          /\ IF InClients(v)
             THEN /\ clients' = Remove(clients, v)
                  /\ pc' = [pc EXCEPT ![t] = Tail(pc[t])]
                  /\ UNCHANGED <<cur, gbtLocals>>
             ELSE /\ clients' = clients
                  /\ pc' = [pc EXCEPT ![t] =
                               IF t = TemplateThread \/ pc[t][Len(pc[t])] = "exit"
                               THEN <<"crashed">> ELSE <<"recv">>]
                  /\ cur' = [c \in Clients |-> IF c = t THEN NoMsg ELSE cur[c]]
                  /\ template' = [template EXCEPT ![t] = NoneBlock]
                  /\ prev' = [prev EXCEPT ![t] = NoneBlock]
                  /\ jtmp' = [jtmp EXCEPT ![t] = 0]
                  /\ idx' = [idx EXCEPT ![t] = 0]
                  /\ bc' = [bc EXCEPT ![t] = NoBroadcast]
    /\ rc_client' = [rc_client EXCEPT ![t] = 0]
    /\ wire' = NoWire
    /\ UNCHANGED <<difficulty, job_id, current_block, extranonce1, username,
                   nmsgs, miner, nfetch, issued>>

\* ------------------------------------------------------------ specification
\* What a handler thread does between two requests, and what its peer does.
Handler(c) ==
    \/ Connect(c)
    \/ PeerDrop(c)
    \/ RecvClosed(c)
    \/ SubscribeGenerate(c)
    \/ SubscribeSend(c)
    \/ AuthorizeSetUsername(c)
    \/ AuthorizeSendDifficulty(c)
    \/ AuthorizeCheckTemplate(c)
    \/ AuthorizeSendJob(c)
    \/ RemoveClient(c)

\* A thread inside get_block_template().
GetBlockTemplate(t) ==
    \/ nfetch < MaxFetch /\ FetchTemplate(t)
    \/ LoadJobId(t)
    \/ StoreJobId(t)
    \/ BroadcastSend(t)
    \/ BroadcastSkip(t)
    \/ BroadcastEnd(t)
    \/ ReturnTemplate(t)

\* The dispatcher: within one sleep of the template thread, which has cached
\* its first template, every client sends up to MaxMsgs lines of any kind.  A
\* handler that a submit sends into get_block_template() waits in the RPC for
\* the rest of the behaviour; SpecRefresh and SpecFetch carry the call through.
Next ==
    \E c \in Clients :
       \/ Handler(c)
       \/ /\ nmsgs[c] < MaxMsgs
          /\ \/ RecvInvalidJson(c)
             \/ \E m \in Requests :
                   \/ Subscribe(c, m)
                   \/ AuthorizeShort(c, m)
                   \/ Authorize(c, m)
                   \/ SubmitShort(c, m)
                   \/ Submit(c, m)
                   \/ Configure(c, m)
                   \/ SuggestDifficultyInvalid(c, m)
                   \/ SuggestDifficulty(c, m)
                   \/ UnknownMethod(c, m)

Spec == InitCached /\ [][Next]_vars

\* The refresh: after its first sleep the template thread fetches again, or a
\* submit does (MaxFetch calls in all, the first one included), while every
\* client sends one line: a subscribe, an authorize or a submit.
RefreshRequests == {m \in Requests : /\ m.method \in {"mining.subscribe", "mining.authorize",
                                                     "mining.submit"}
                                     /\ m.user \in {None, "alice"}
                                     /\ m.job = 0 /\ m.hash = 0}

NextRefresh ==
    \/ \E c \in Clients :
          \/ Handler(c)
          \/ /\ nmsgs[c] < RefreshMsgs
             /\ \E m \in RefreshRequests :
                   \/ Subscribe(c, m)
                   \/ Authorize(c, m)
                   \/ Submit(c, m)
    \/ \E t \in Threads : GetBlockTemplate(t)
    \/ RemoveClient(TemplateThread)

SpecRefresh == InitCached /\ [][NextRefresh]_vars

\* The first fetches: from the start of the process the template thread and
\* the handler of one client, which sends up to MaxMsgs lines, call
\* get_block_template() concurrently, MaxFetch times in all.
NextFetch ==
    \/ /\ Handler(FirstClient)
    \/ /\ nmsgs[FirstClient] < MaxMsgs
       /\ \E m \in RefreshRequests :
             \/ Subscribe(FirstClient, m)
             \/ Authorize(FirstClient, m)
             \/ Submit(FirstClient, m)
    \/ GetBlockTemplate(FirstClient)
    \/ GetBlockTemplate(TemplateThread)
    \/ RemoveClient(TemplateThread)

SpecFetch == Init /\ [][NextFetch]_vars

\* ------------------------------------------------------------------ claims
Live(c) == InClients(c) /\ ~sockClosed[c] /\ ~peerGone[c]
Calls(t, label) == \E i \in 1..Len(pc[t]) : pc[t][i] = label
SubmitRequests == {m \in Requests : m.method = "mining.submit"}

\* C1: a mining.submit handled before any successful mining.authorize of the
\* session is answered with the error Unauthorized, never with result True,
\* and starts no template refresh.
C1_SubmitBeforeAuthorizeRefused ==
    [][\A c \in Clients, m \in SubmitRequests :
          (Submit(c, m) \/ SubmitShort(c, m)) /\ ~authorize_ok[c] =>
             /\ Deliverable(c) => /\ wire'.to = c
                                  /\ wire'.error = "Unauthorized"
                                  /\ wire'.result # "True"
             /\ ~Calls(c, "gbt_rpc")']_vars

\* C2: two distinct live sessions that were each answered a mining.subscribe
\* hold different extranonce1 values.
C2_ExtranonceDistinct ==
    \A c1, c2 \in Clients :
       /\ c1 # c2
       /\ Live(c1) /\ Live(c2)
       /\ given_extranonce[c1] # None /\ given_extranonce[c2] # None
       => given_extranonce[c1] # given_extranonce[c2]

\* C3: when a broadcast ends in which a send failed, the sessions whose send
\* failed are no longer registered, and every authorized session registered at
\* the start of the broadcast and still registered was sent the job.
C3_BroadcastSurvivesFailure ==
    \A t \in Threads :
       Top(t) = "gbt_ret" /\ bc[t].failed # {} =>
          /\ \A c \in bc[t].failed : ~InClients(c)
          /\ \A c \in bc[t].start :
                c \in bc[t].tried \/ ~InClients(c) \/ ~Truthy(username[c])

\* C4: a get_block_template() whose RPC fails leaves current_block as it was
\* and assigns no new job id.
C4_FailedFetchKeepsJob ==
    [][\A t \in Threads :
          /\ FetchTemplate(t) /\ template'[t] = DummyTemplate =>
                current_block' = current_block
          /\ StoreJobId(t) /\ template[t] = DummyTemplate =>
                job_id' = job_id]_vars

\* C5: a session is eligible for job broadcasts only after it has handled a
\* mining.subscribe, and once eligible it stays eligible.
C5_SubscribedThenAuthorized ==
    [][\A c \in Clients :
          /\ Truthy(username'[c]) => given_extranonce'[c] # None
          /\ Truthy(username[c]) => Truthy(username'[c])]_vars

\* C6: the job ids assigned by successive template fetches are strictly
\* increasing, so no two fetches get the same one.
C6_JobIdsIncrease ==
    \A i, j \in 1..Len(issued) : i < j => issued[i] < issued[j]

\* C7: a share of an authorized session is rejected with StaleJob exactly
\* when it quotes neither the job of the last fetch nor that of the one before.
C7_StaleJobRejected ==
    [][\A c \in Clients, m \in SubmitRequests :
          LET evaluated == \E i \in 1..Len(issued) :
                              issued[i] = m.job /\ i >= Len(issued) - 1
          IN  Submit(c, m) /\ authorize_ok[c] /\ Deliverable(c) =>
                 /\ wire'.to = c
                 /\ (wire'.error = "StaleJob") <=> ~evaluated
                 /\ ~evaluated => wire'.result # "True"]_vars

\* C8: a share quoting the current or the previous job is accepted when its
\* header hash is at most the target of the difficulty announced to the session
\* (the difficulty-one target divided by it; difficulty 1 before any
\* announcement) and rejected with LowDifficultyShare above that target.
C8_LowDifficultyRejected ==
    [][\A c \in Clients, m \in SubmitRequests :
          LET evaluated == \E i \in 1..Len(issued) :
                              issued[i] = m.job /\ i >= Len(issued) - 1
              d == IF miner_diff[c] = <<>> THEN 1 ELSE miner_diff[c][1]
              target == IF d >= 1 THEN DiffOneTarget \div d ELSE DiffOneTarget
          IN  Submit(c, m) /\ authorize_ok[c] /\ Deliverable(c) /\ evaluated =>
                 /\ wire'.to = c
                 /\ m.hash > target =>
                       wire'.error = "LowDifficultyShare" /\ wire'.result # "True"
                 /\ m.hash <= target => wire'.result = "True"]_vars

\* C9: a fetch that returns the template already cached assigns no new job id
\* and sends no job notification.
C9_UnchangedTemplateNoJob ==
    [][\A t \in Threads :
          template[t] # NoneBlock /\ template[t] = prev[t] =>
             /\ StoreJobId(t) => job_id' = job_id
             /\ BroadcastSend(t) => wire' = NoWire]_vars

\* C10: a mining.notify only ever goes to a session whose mining.authorize has
\* been answered with success.
C10_NotifyOnlyAuthorized ==
    wire.kind = "mining.notify" => authorize_ok[wire.to]

\* C10 witness: a broadcast has delivered the job to an authorized session and
\* has passed over a registered session that only subscribed.
C10_Witness ==
    \E t \in Threads, a, b \in Clients :
       /\ Top(t) = "gbt_ret"
       /\ wire.kind = "mining.notify" /\ wire.to = a /\ a \in bc[t].tried
       /\ InClients(b) /\ given_extranonce[b] # None /\ ~authorize_ok[b]
       /\ b \notin bc[t].tried

\* C11: a mining.subscribe sent again on a subscribed session is answered with
\* the extranonce1 of the session's earlier subscribe response, and leaves the
\* session's user name and authorization as they were.
C11_ResubscribeSameExtranonce ==
    [][\A c \in Clients :
          SubscribeSend(c) /\ given_extranonce[c] # None /\ Deliverable(c) =>
             /\ wire'.extranonce1 = given_extranonce[c]
             /\ username'[c] = username[c]
             /\ authorize_ok'[c] = authorize_ok[c]]_vars

\* C12: a request with an unknown method keeps the session registered and is
\* answered with an error, never with result True.
C12_UnknownMethodError ==
    [][\A c \in Clients, m \in Requests :
          UnknownMethod(c, m) /\ Deliverable(c) =>
             /\ InClients(c)'
             /\ wire'.to = c
             /\ wire'.error # None
             /\ wire'.result # "True"]_vars

\* C13: a session is sent no mining.notify before it has been sent its first
\* mining.set_difficulty.
C13_DifficultyBeforeNotify ==
    wire.kind = "mining.notify" => miner_diff[wire.to] # <<>>

\* C14: the mining.notify of a broadcast that replaces one fetched template by
\* another has clean_jobs true exactly when the previous block hash changed.
C14_CleanJobsOnNewBlock ==
    [][\A t \in Threads :
          /\ BroadcastSend(t)
          /\ template[t] \in Templates /\ prev[t] \in Templates
          /\ wire'.kind = "mining.notify"
          => (wire'.clean_jobs <=>
                 template[t].previousblockhash # prev[t].previousblockhash)]_vars

\* C15: the difficulty announced in a mining.set_difficulty is never zero or
\* negative, whatever values were suggested.
C15_DifficultyPositive ==
    wire.kind = "mining.set_difficulty" => wire.difficulty > 0

\* C16: a handler thread that has ended, by its normal exit or by an exception
\* in its last remove_client, leaves its client out of `clients` with the
\* socket closed.
C16_TerminatedDeregistered ==
    \A c \in Clients :
       Top(c) \in {"exit", "crashed"} => ~InClients(c) /\ sockClosed[c]

\* C16 witness: a handler ended by the ValueError of its last remove_client,
\* because another thread removed the same client after the handler's test.
C16_Witness ==
    \E c \in Clients :
       Top(c) = "crashed" /\ ~InClients(c) /\ sockClosed[c] /\ authorize_ok[c]

\* C17: once a session has a user name, no later request changes it.
C17_WorkerNameSetOnce ==
    [][\A c \in Clients :
          username[c] # None => username'[c] = username[c]]_vars

\* C18: every mining.notify names a job id that a template fetch assigned, so
\* none pairs a fetched template with the initial job id 0.
C18_NotifyJobWasIssued ==
    wire.kind = "mining.notify" =>
       \E i \in 1..Len(issued) : issued[i] = wire.job_id

\* C19: the template thread is never ended by what happens to a client.
C19_TemplateThreadRuns ==
    Top(TemplateThread) # "crashed"

\* C20: a session whose first request is its mining.authorize, having suggested
\* nothing itself, is announced the baseline difficulty 1 whatever the other
\* sessions have suggested.
C20_DifficultyPerSession ==
    [][\A b \in Clients :
          AuthorizeSendDifficulty(b) /\ Deliverable(b) /\ nmsgs[b] = 1 =>
             wire'.difficulty = 1]_vars

====
